---- MODULE Spec2Model ----
(***************************************************************************)
(* Model of the asynchronous import-job orchestrator of model-server       *)
(* (src/model-server/src/import.rs): InMemoryImporter, its status-apply    *)
(* task, the do_import workers and the HTTP handlers that call them.       *)
(***************************************************************************)
EXTENDS Naturals, Sequences, FiniteSets, TLC

(***************************************************************************)
(* Bounds of the model.                                                    *)
(***************************************************************************)
\* number of start_import calls explored
MaxJobs == 2
\* capacity of the mpsc channel explored (the code builds it with 128)
ChanCap == 2

\* longest path, in components, a Locator is serialised with
MaxPathLen == 2

\* number of models a database is explored with
MaxModels == 2

\* ImportJobId values (uuid::Uuid); one more than MaxJobs, so that an id that
\* is never submitted always exists
Ids == 1 .. (MaxJobs + 1)

(***************************************************************************)
(* Option<T>                                                               *)
(***************************************************************************)
None == [some |-> FALSE]
Some(x) == [some |-> TRUE, val |-> x]

(***************************************************************************)
(* Paths (std::path::PathBuf) are sequences of components below the root;  *)
(* the component NonUtf8 stands for an OsString that is not valid UTF-8.   *)
(***************************************************************************)
NonUtf8 == "\\xFF"
PExists == <<"tmp", "exists.bin">>
PMissing == <<"tmp", "missing.bin">>
PRoot == <<>>
PNonUtf8Dir == <<NonUtf8, "exists.bin">>
DiskPaths == {PExists, PMissing, PRoot, PNonUtf8Dir}

\* paths that exist on the local disk
FileSystem == {PExists, PRoot, PNonUtf8Dir}

\* Hugging Face repositories and the files they serve
HfRepos == {"org/model", "org/absent"}
HfFile == <<"model.bin">>
Hub == {<<"org/model", HfFile>>}
HfCache == <<"cache", "hub">>

\* Path::file_name: the final component, None for the root and for "..".
file_name(p) ==
    IF Len(p) = 0 \/ p[Len(p)] = ".." THEN None ELSE Some(p[Len(p)])

\* OsString::into_string: Err (here None) for a string that is not UTF-8.
into_string(os) == IF os = NonUtf8 THEN None ELSE Some(os)

\* Path::to_str: None when any component is not UTF-8.
to_str(p) == IF \E i \in 1 .. Len(p) : p[i] = NonUtf8 THEN None ELSE Some(p)

(***************************************************************************)
(* api_types                                                               *)
(***************************************************************************)
DiskLocator(p) == [path |-> p]
HFLocator(r, f) == [repo |-> r, file |-> f]
ImportJobDISK(l) == [kind |-> "DISK", locator |-> l]
ImportJobHF(l) == [kind |-> "HF", locator |-> l]

\* the ImportJob values start_import is called with
ImportJobs ==
    {ImportJobDISK(DiskLocator(p)) : p \in DiskPaths}
        \cup {ImportJobHF(HFLocator(r, HfFile)) : r \in HfRepos}

Queued == [type |-> "Queued"]
InProgress(p) == [type |-> "InProgress", progress |-> p]
Completed(i) == [type |-> "Completed", info |-> i]
Failed(e) == [type |-> "Failed", error |-> e]

JobEntry(t, s) == [task |-> t, status |-> s]
UpdateStatus(j, s) == [job |-> j, status |-> s]
NoMsg == [job |-> 0, status |-> Queued]

VARIABLES
    job_status,  \* InMemoryImporter.job_status: ImportJobId -> JobEntry
    lock,        \* the RwLock around job_status: its writer and its readers
    channel,     \* messages buffered in the mpsc channel
    closed,      \* the channel's receiver has been dropped
    issued,      \* ids Uuid::new_v4 has returned so far
    calls,       \* number of start_import calls made
    sub,         \* start_import calls: id -> position and task
    worker,      \* spawned do_import tasks: id -> position, task, fetched path
    sent,        \* id -> the statuses its worker has put on the channel
    loop,        \* the status-apply task: position, message, request
    registry,    \* model names in the model table of the DB
    regCalls,    \* id -> number of register_model calls made for that job
    regErr,      \* ids whose register_model call returned Err
    rd,          \* the get_import_status call in progress, and its result
    applied,     \* id -> the statuses the task has assigned to its entry
    fetches,     \* id -> the importer calls its worker has made
    ls,          \* the get_all_job_status call in progress, and its result
    resp,        \* the last answer of the import_model handler
    conv,        \* a Locator on its way through serde_json and back
    db,          \* the tables of the SQLite database behind DB.connection
    dbres,       \* the last call on DB and what it returned
    mig          \* the LinearMigrationManager and its last upgrade_schema call

\* the state of the importer and of its callers
importer_vars ==
    <<job_status, lock, channel, closed, issued, calls, sub, worker, sent,
      loop, registry, regCalls, regErr, rd, applied, fetches, ls, resp>>

\* the state the importer's own steps do not touch
other_vars == <<conv, db, dbres, mig>>

vars == <<job_status, lock, channel, closed, issued, calls, sub, worker, sent,
          loop, registry, regCalls, regErr, rd, applied, fetches, ls, resp,
          conv, db, dbres, mig>>

\* holders of the write guard
NoWriter == <<"none", 0>>
LoopWriter == <<"loop", 0>>
SubWriter(id) == <<"start_import", id>>
LockFree == [writer |-> NoWriter, readers |-> {}]

\* write changed: a lock that grants the write guard while readers hold theirs
CanWriteDespiteReaders == lock.writer = NoWriter

\* RwLock::write can be granted: nobody holds the lock
CanWrite == lock.writer = NoWriter /\ lock.readers = {}
\* read changed: a lock that grants a read guard while a writer holds its own
CanReadDespiteWriter == TRUE

\* RwLock::read can be granted: no writer holds the lock
CanRead == lock.writer = NoWriter

\* InMemoryImporter::new: an empty table, an empty channel, the task at recv
InitImporter ==
    /\ job_status = << >>
    /\ lock = LockFree
    /\ channel = << >>
    /\ closed = FALSE
    /\ issued = {}
    /\ calls = 0
    /\ sub = << >>
    /\ worker = << >>
    /\ sent = [i \in Ids |-> << >>]
    /\ loop = [pc |-> "recv", msg |-> NoMsg, req |-> None]
    /\ registry = {}
    /\ regCalls = [i \in Ids |-> 0]
    /\ regErr = {}
    /\ rd = [pc |-> "idle"]
    /\ applied = [i \in Ids |-> << >>]
    /\ fetches = [i \in Ids |-> << >>]
    /\ ls = [pc |-> "idle"]
    /\ resp = [code |-> "none"]

\* a database with the schema and no row
EmptyDb ==
    [model |-> {}, model_version |-> {}, import_metadata |-> {},
     model_params |-> {}, saved_experiments |-> {}]

NoConv == [pc |-> "none"]
NoCall == [fn |-> "none"]

\* LinearMigrationManager::new (db/manager.rs 30-34): no migration, no call
NoMigrations == [migrations |-> << >>, call |-> NoCall]

Init ==
    /\ InitImporter
    /\ conv = NoConv
    /\ db = EmptyDb
    /\ dbres = NoCall
    /\ mig = NoMigrations


(***************************************************************************)
(* start_import (import.rs 128-147)                                        *)
(***************************************************************************)
\* new_v4 changed: a generator that may return a value it returned before
new_v4_Repeating(used) == Ids

\* Uuid::new_v4: a random 122-bit value, modelled as a value never returned
\* before; used is the set of values already returned. Ids are
\* interchangeable, so the least unused one stands for the value drawn.
new_v4(used) == {i \in Ids \ used : \A k \in Ids \ used : i <= k}

\* insert changed: entries of finished jobs are evicted when one is added
InsertEvicting(table, k, v) ==
    (k :> v) @@ [j \in {i \in DOMAIN table :
                           table[i].status.type \notin {"Completed", "Failed"}}
                 |-> table[j]]

\* HashMap::insert: adds the key, or replaces the value of an existing key
Insert(table, k, v) == (k :> v) @@ table

\* line 129: start_import is called with task and draws its task_id
StartImportCall(id, task) ==
    /\ UNCHANGED other_vars
    /\ id \in new_v4(issued)
    /\ issued' = issued \cup {id}
    /\ calls' = calls + 1
    /\ sub' = (id :> [pc |-> "lock", task |-> task]) @@ sub
    /\ UNCHANGED <<applied, fetches, ls>>
    /\ UNCHANGED <<job_status, lock, channel, closed, worker, sent, loop,
                   registry, regCalls, regErr, rd>>

\* a call by a user of the Importer trait, while calls are left to explore
StartImportBegin(id, task) ==
    /\ calls < MaxJobs
    /\ StartImportCall(id, task)
    /\ UNCHANGED resp

\* the order changed: the worker is spawned before the entry is inserted
StartImportLockSpawning(id) ==
    /\ UNCHANGED other_vars
    /\ id \in DOMAIN sub
    /\ sub[id].pc = "lock"
    /\ CanWrite
    /\ lock' = [lock EXCEPT !.writer = SubWriter(id)]
    /\ sub' = [sub EXCEPT ![id].pc = "insert"]
    /\ worker' = (id :> [pc |-> "start", task |-> sub[id].task,
                          path |-> None]) @@ worker
    /\ UNCHANGED <<applied, fetches, ls, resp>>
    /\ UNCHANGED <<job_status, channel, closed, issued, calls, sent,
                   loop, registry, regCalls, regErr, rd>>

\* line 132: job_status.write().await is granted
StartImportLock(id) ==
    /\ UNCHANGED other_vars
    /\ id \in DOMAIN sub
    /\ sub[id].pc = "lock"
    /\ CanWrite
    /\ lock' = [lock EXCEPT !.writer = SubWriter(id)]
    /\ sub' = [sub EXCEPT ![id].pc = "insert"]
    /\ UNCHANGED <<applied, fetches, ls, resp>>
    /\ UNCHANGED <<job_status, channel, closed, issued, calls, worker, sent,
                   loop, registry, regCalls, regErr, rd>>

\* the insert changed: the guard is dropped with no entry inserted
StartImportInsertSkipped(id) ==
    /\ UNCHANGED other_vars
    /\ id \in DOMAIN sub
    /\ sub[id].pc = "insert"
    /\ lock' = [lock EXCEPT !.writer = NoWriter]
    /\ sub' = [sub EXCEPT ![id].pc = "spawn"]
    /\ UNCHANGED <<job_status, channel, closed, issued, calls, worker, sent,
                   loop, registry, regCalls, regErr, rd, applied, fetches, ls,
                   resp>>

\* lines 133-140: the Queued entry is inserted and the guard dropped
StartImportInsert(id) ==
    /\ UNCHANGED other_vars
    /\ id \in DOMAIN sub
    /\ sub[id].pc = "insert"
    /\ job_status' = Insert(job_status, id, JobEntry(sub[id].task, Queued))
    /\ lock' = [lock EXCEPT !.writer = NoWriter]
    /\ sub' = [sub EXCEPT ![id].pc = "spawn"]
    /\ UNCHANGED <<applied, fetches, ls, resp>>
    /\ UNCHANGED <<channel, closed, issued, calls, worker, sent, loop,
                   registry, regCalls, regErr, rd>>

\* the spawn changed: a worker is started only while fewer than ChanCap
\* workers are running, and the call waits otherwise
StartImportSpawnThrottled(id) ==
    /\ UNCHANGED other_vars
    /\ id \in DOMAIN sub
    /\ sub[id].pc = "spawn"
    /\ Cardinality({j \in DOMAIN worker :
                       worker[j].pc \in {"start", "fetch", "send"}}) < ChanCap
    /\ worker' = (id :> [pc |-> "start", task |-> sub[id].task,
                          path |-> None]) @@ worker
    /\ sub' = [sub EXCEPT ![id].pc = "returned"]
    /\ UNCHANGED <<applied, fetches, ls, resp>>
    /\ UNCHANGED <<job_status, lock, channel, closed, issued, calls, sent,
                   loop, registry, regCalls, regErr, rd>>

\* lines 143-146: the worker is spawned and the id returned
StartImportSpawn(id) ==
    /\ UNCHANGED other_vars
    /\ id \in DOMAIN sub
    /\ sub[id].pc = "spawn"
    /\ worker' = (id :> [pc |-> "start", task |-> sub[id].task,
                          path |-> None]) @@ worker
    /\ sub' = [sub EXCEPT ![id].pc = "returned"]
    /\ UNCHANGED <<applied, fetches, ls, resp>>
    /\ UNCHANGED <<job_status, lock, channel, closed, issued, calls, sent,
                   loop, registry, regCalls, regErr, rd>>

(***************************************************************************)
(* do_import (import.rs 185-234)                                           *)
(***************************************************************************)
\* import_disk, lines 230-234: the locator's path, whether it exists or not
import_disk(locator) == Some(locator.path)

\* import_hf, lines 216-228: the path of the downloaded file; None stands for
\* the panic of the unwrap on a failed download
import_hf(locator) ==
    IF <<locator.repo, locator.file>> \in Hub
    THEN Some(HfCache \o <<locator.repo>> \o locator.file)
    ELSE None

\* lines 200-203: the importer called for the task, and its argument
Call(task) ==
    [fn |-> IF task.kind = "DISK" THEN "import_disk" ELSE "import_hf",
     locator |-> task.locator]

\* lines 200-203: the fetch, dispatched on the variant of the task
Fetch(task) ==
    IF task.kind = "DISK" THEN import_disk(task.locator)
    ELSE import_hf(task.locator)

\* lines 195: the status of the first message
FirstStatus == InProgress(0)

\* lines 208-210: the status of the message sent after the fetch
LastStatus(download_path) == Completed(to_str(download_path))

\* the first send changed: the worker goes on to the fetch with nothing sent
WorkerSkipInProgress(id) ==
    /\ UNCHANGED other_vars
    /\ id \in DOMAIN worker
    /\ worker[id].pc = "start"
    /\ worker' = [worker EXCEPT ![id].pc = "fetch"]
    /\ UNCHANGED <<job_status, lock, channel, closed, issued, calls, sub, sent,
                   loop, registry, regCalls, regErr, rd, applied, fetches, ls,
                   resp>>

\* the first send changed: its Err is ignored and the worker goes on to fetch
WorkerSendInProgressIgnoringErr(id) ==
    /\ UNCHANGED other_vars
    /\ id \in DOMAIN worker
    /\ worker[id].pc = "start"
    /\ \/ /\ closed
          /\ worker' = [worker EXCEPT ![id].pc = "fetch"]
          /\ UNCHANGED <<channel, sent>>
       \/ /\ ~closed
          /\ Len(channel) < ChanCap
          /\ channel' = Append(channel, UpdateStatus(id, FirstStatus))
          /\ sent' = [sent EXCEPT ![id] = Append(@, FirstStatus)]
          /\ worker' = [worker EXCEPT ![id].pc = "fetch"]
    /\ UNCHANGED <<applied, fetches, ls, resp>>
    /\ UNCHANGED <<job_status, lock, closed, issued, calls, sub, loop,
                   registry, regCalls, regErr, rd>>

\* Sender::send on a channel whose receiver is gone returns Err at once;
\* otherwise it waits for a free slot and appends the message.
\* lines 192-198: the InProgress message; an Err ends the worker (the ?)
WorkerSendInProgress(id) ==
    /\ UNCHANGED other_vars
    /\ id \in DOMAIN worker
    /\ worker[id].pc = "start"
    /\ \/ /\ closed
          /\ worker' = [worker EXCEPT ![id].pc = "err"]
          /\ UNCHANGED <<channel, sent>>
       \/ /\ ~closed
          /\ Len(channel) < ChanCap
          /\ channel' = Append(channel, UpdateStatus(id, FirstStatus))
          /\ sent' = [sent EXCEPT ![id] = Append(@, FirstStatus)]
          /\ worker' = [worker EXCEPT ![id].pc = "fetch"]
    /\ UNCHANGED <<applied, fetches, ls, resp>>
    /\ UNCHANGED <<job_status, lock, closed, issued, calls, sub, loop,
                   registry, regCalls, regErr, rd>>

\* lines 200-203: the fetch returns a path, or panics and ends the worker
WorkerFetch(id) ==
    /\ UNCHANGED other_vars
    /\ id \in DOMAIN worker
    /\ worker[id].pc = "fetch"
    /\ fetches' = [fetches EXCEPT ![id] = Append(@, Call(worker[id].task))]
    /\ LET r == Fetch(worker[id].task) IN
          \/ /\ r.some
             /\ worker' = [worker EXCEPT ![id].pc = "send", ![id].path = r]
          \/ /\ ~r.some
             /\ worker' = [worker EXCEPT ![id].pc = "panicked"]
    /\ UNCHANGED <<applied, ls, resp>>
    /\ UNCHANGED <<job_status, lock, channel, closed, issued, calls, sub, sent,
                   loop, registry, regCalls, regErr, rd>>

\* the last send changed: the worker also writes the status into the table
WorkerSendLastDirect(id) ==
    /\ UNCHANGED other_vars
    /\ id \in DOMAIN worker
    /\ worker[id].pc = "send"
    /\ ~closed
    /\ Len(channel) < ChanCap
    /\ LET st == Completed(to_str(worker[id].path.val)) IN
          /\ channel' = Append(channel, UpdateStatus(id, st))
          /\ sent' = [sent EXCEPT ![id] = Append(@, st)]
          /\ job_status' = [job_status EXCEPT ![id].status = st]
    /\ worker' = [worker EXCEPT ![id].pc = "done"]
    /\ UNCHANGED <<lock, closed, issued, calls, sub, loop, registry, regCalls,
                   regErr, rd, applied, fetches, ls, resp>>

\* the last send changed: the message is appended without waiting for a slot
WorkerSendLastUnbounded(id) ==
    /\ UNCHANGED other_vars
    /\ id \in DOMAIN worker
    /\ worker[id].pc = "send"
    /\ \/ /\ closed
          /\ worker' = [worker EXCEPT ![id].pc = "err"]
          /\ UNCHANGED <<channel, sent>>
       \/ /\ ~closed
          /\ LET st == LastStatus(worker[id].path.val) IN
                /\ channel' = Append(channel, UpdateStatus(id, st))
                /\ sent' = [sent EXCEPT ![id] = Append(@, st)]
          /\ worker' = [worker EXCEPT ![id].pc = "done"]
    /\ UNCHANGED <<applied, fetches, ls, resp>>
    /\ UNCHANGED <<job_status, lock, closed, issued, calls, sub, loop,
                   registry, regCalls, regErr, rd>>

\* lines 205-213: the message after the fetch
WorkerSendLast(id) ==
    /\ UNCHANGED other_vars
    /\ id \in DOMAIN worker
    /\ worker[id].pc = "send"
    /\ \/ /\ closed
          /\ worker' = [worker EXCEPT ![id].pc = "err"]
          /\ UNCHANGED <<channel, sent>>
       \/ /\ ~closed
          /\ Len(channel) < ChanCap
          /\ LET st == LastStatus(worker[id].path.val) IN
                /\ channel' = Append(channel, UpdateStatus(id, st))
                /\ sent' = [sent EXCEPT ![id] = Append(@, st)]
          /\ worker' = [worker EXCEPT ![id].pc = "done"]
    /\ UNCHANGED <<applied, fetches, ls, resp>>
    /\ UNCHANGED <<job_status, lock, closed, issued, calls, sub, loop,
                   registry, regCalls, regErr, rd>>

(***************************************************************************)
(* The status-apply task spawned by InMemoryImporter::new (import.rs 47-120)*)
(***************************************************************************)
\* a panic ends the task: its receiver is dropped with the buffered messages
LoopDead == [pc |-> "dead", msg |-> NoMsg, req |-> None]

\* recv changed: the newest buffered message is taken, not the oldest
LoopRecvNewest ==
    /\ UNCHANGED other_vars
    /\ loop.pc = "recv"
    /\ ~closed
    /\ channel # << >>
    /\ loop' = [loop EXCEPT !.pc = "lock", !.msg = channel[Len(channel)]]
    /\ channel' = SubSeq(channel, 1, Len(channel) - 1)
    /\ UNCHANGED <<job_status, lock, closed, issued, calls, sub, worker, sent,
                   registry, regCalls, regErr, rd, applied, fetches, ls, resp>>

\* line 50: receiver.recv().await yields the oldest buffered message
LoopRecv ==
    /\ UNCHANGED other_vars
    /\ loop.pc = "recv"
    /\ ~closed
    /\ channel # << >>
    /\ loop' = [loop EXCEPT !.pc = "lock", !.msg = Head(channel)]
    /\ channel' = Tail(channel)
    /\ UNCHANGED <<applied, fetches, ls, resp>>
    /\ UNCHANGED <<job_status, lock, closed, issued, calls, sub, worker, sent,
                   registry, regCalls, regErr, rd>>

\* line 57: table_clone.write().await is granted
LoopLock ==
    /\ UNCHANGED other_vars
    /\ loop.pc = "lock"
    /\ CanWrite
    /\ lock' = [lock EXCEPT !.writer = LoopWriter]
    /\ loop' = [loop EXCEPT !.pc = "apply"]
    /\ UNCHANGED <<applied, fetches, ls, resp>>
    /\ UNCHANGED <<job_status, channel, closed, issued, calls, sub, worker,
                   sent, registry, regCalls, regErr, rd>>

\* the assignment changed: the status is written to every entry of the table
ApplyStatusToAll(table, job, status) ==
    [j \in DOMAIN table |-> [table[j] EXCEPT !.status = status]]

\* the assignment changed: only an entry that is still Queued is written
ApplyStatusIfQueued(table, job, status) ==
    IF table[job].status = Queued THEN [table EXCEPT ![job].status = status]
    ELSE table

\* line 59: entry.status = status.clone()
ApplyStatus(table, job, status) == [table EXCEPT ![job].status = status]

\* the name changed: the first component of the path is taken, not the last
LocatorFirstComponent(job_def) ==
    LET p == IF job_def.kind = "DISK" THEN job_def.locator.path
             ELSE job_def.locator.file
    IN  IF Len(p) = 0 THEN None ELSE into_string(p[1])

\* lines 64-79: the final component of the locator's path (DISK) or file (HF)
\* as a String; None stands for the panic of either unwrap
LocatorFileName(job_def) ==
    LET p == IF job_def.kind = "DISK" THEN job_def.locator.path
             ELSE job_def.locator.file
        f == file_name(p)
    IN  IF f.some THEN into_string(f.val) ELSE None

\* the request changed: the source is rebuilt from the path in info
RegisterModelRequestFromInfo(job_def, name, info) ==
    [model |-> name,
     version |-> <<0, 1, 0>>,
     source |-> [kind |-> "DISK", source |-> DiskLocator(info.val)],
     model_type |-> "completion",
     runtime |-> "ggml",
     model_path |-> info.val]

\* lines 90-111: the request built for a Completed message
RegisterModelRequest(job_def, name, info) ==
    [model |-> name,
     version |-> <<0, 1, 0>>,
     source |-> [kind |-> job_def.kind, source |-> job_def.locator],
     model_type |-> "completion",
     runtime |-> "ggml",
     model_path |-> info.val]

\* the block changed: the write guard lives on to the end of the iteration,
\* so it is still held when register_model is called
LoopApplyHolding ==
    /\ UNCHANGED other_vars
    /\ loop.pc = "apply"
    /\ LET job == loop.msg.job
           status == loop.msg.status
       IN  IF job \notin DOMAIN job_status
           THEN /\ loop' = LoopDead
                /\ closed' = TRUE
                /\ channel' = << >>
                /\ lock' = [lock EXCEPT !.writer = NoWriter]
                /\ UNCHANGED <<job_status, applied>>
           ELSE /\ job_status' = ApplyStatus(job_status, job, status)
                /\ applied' = [applied EXCEPT ![job] = Append(@, status)]
                /\ LET job_def == job_status[job].task
                       name == LocatorFileName(job_def)
                   IN  IF ~name.some
                       THEN /\ loop' = LoopDead
                            /\ closed' = TRUE
                            /\ channel' = << >>
                            /\ lock' = [lock EXCEPT !.writer = NoWriter]
                       ELSE IF status.type # "Completed"
                       THEN /\ loop' = [pc |-> "recv", msg |-> NoMsg, req |-> None]
                            /\ lock' = [lock EXCEPT !.writer = NoWriter]
                            /\ UNCHANGED <<closed, channel>>
                       ELSE IF ~status.info.some
                       THEN /\ loop' = LoopDead
                            /\ closed' = TRUE
                            /\ channel' = << >>
                            /\ lock' = [lock EXCEPT !.writer = NoWriter]
                       ELSE /\ loop' = [loop EXCEPT !.pc = "register",
                                 !.req = Some(RegisterModelRequest(
                                             job_def, name.val, status.info))]
                            /\ UNCHANGED <<lock, closed, channel>>
    /\ UNCHANGED <<fetches, ls, resp>>
    /\ UNCHANGED <<issued, calls, sub, worker, sent, registry, regCalls,
                   regErr, rd>>

\* lines 55-111: with the write lock held the status is assigned and the
\* guard dropped; then the file name is derived and, for Completed, the
\* request built up to the call of register_model. Each unwrap that fails
\* panics the task.
LoopApply ==
    /\ UNCHANGED other_vars
    /\ loop.pc = "apply"
    /\ lock' = [lock EXCEPT !.writer = NoWriter]
    /\ LET job == loop.msg.job
           status == loop.msg.status
       IN  IF job \notin DOMAIN job_status
           THEN /\ loop' = LoopDead
                /\ closed' = TRUE
                /\ channel' = << >>
                /\ UNCHANGED <<job_status, applied>>
           ELSE /\ job_status' = ApplyStatus(job_status, job, status)
                /\ applied' = [applied EXCEPT ![job] = Append(@, status)]
                /\ LET job_def == job_status[job].task
                       name == LocatorFileName(job_def)
                   IN  IF ~name.some
                       THEN /\ loop' = LoopDead
                            /\ closed' = TRUE
                            /\ channel' = << >>
                       ELSE IF status.type # "Completed"
                       THEN /\ loop' = [pc |-> "recv", msg |-> NoMsg, req |-> None]
                            /\ UNCHANGED <<closed, channel>>
                       ELSE IF ~status.info.some
                       THEN /\ loop' = LoopDead
                            /\ closed' = TRUE
                            /\ channel' = << >>
                       ELSE /\ loop' = [loop EXCEPT !.pc = "register",
                                 !.req = Some(RegisterModelRequest(
                                             job_def, name.val, status.info))]
                            /\ UNCHANGED <<closed, channel>>
    /\ UNCHANGED <<fetches, ls, resp>>
    /\ UNCHANGED <<issued, calls, sub, worker, sent, registry, regCalls,
                   regErr, rd>>

\* DB::register_model (db/tables.rs 37-101) as the importer sees it: the
\* model table has a unique name column, so a name already registered fails

\* lines 90-113, Ok: the model is registered and the task goes on to recv
LoopRegisterOk ==
    /\ UNCHANGED other_vars
    /\ loop.pc = "register"
    /\ loop.req.val.model \notin registry
    /\ registry' = registry \cup {loop.req.val.model}
    /\ regCalls' = [regCalls EXCEPT ![loop.msg.job] = @ + 1]
    /\ loop' = [pc |-> "recv", msg |-> NoMsg, req |-> None]
    /\ UNCHANGED <<applied, fetches, ls, resp>>
    /\ UNCHANGED <<job_status, lock, channel, closed, issued, calls, sub,
                   worker, sent, regErr, rd>>

\* the Err arm changed: the failure is recorded as the job's status
LoopRegisterErrReverting ==
    /\ UNCHANGED other_vars
    /\ loop.pc = "register"
    /\ regCalls' = [regCalls EXCEPT ![loop.msg.job] = @ + 1]
    /\ regErr' = regErr \cup {loop.msg.job}
    /\ job_status' = [job_status EXCEPT ![loop.msg.job].status =
                          Failed(Some("register_model failed"))]
    /\ loop' = [pc |-> "recv", msg |-> NoMsg, req |-> None]
    /\ UNCHANGED <<applied, fetches, ls, resp>>
    /\ UNCHANGED <<lock, channel, closed, issued, calls, sub, worker, sent,
                   registry, rd>>

\* lines 90-113, Err (a duplicate name, or any failure of the database):
\* the unwrap panics the task
LoopRegisterErr ==
    /\ UNCHANGED other_vars
    /\ loop.pc = "register"
    /\ regCalls' = [regCalls EXCEPT ![loop.msg.job] = @ + 1]
    /\ regErr' = regErr \cup {loop.msg.job}
    /\ loop' = LoopDead
    /\ closed' = TRUE
    /\ channel' = << >>
    /\ UNCHANGED <<applied, fetches, ls, resp>>
    /\ UNCHANGED <<job_status, lock, issued, calls, sub, worker, sent,
                   registry, rd>>

(***************************************************************************)
(* get_import_status (import.rs 149-157), called by import_job_status      *)
(* (router/imports.rs 39-51)                                               *)
(***************************************************************************)
\* line 156: the only error get_import_status returns
NotFound == [type |-> "Err", msg |-> "oopsie, no data"]

\* the lookup changed: a missing entry is answered with the default status
LookupOrQueued(table, id) ==
    IF id \in DOMAIN table THEN table[id].status ELSE Queued

\* the lookup changed: the status the entry was inserted with is answered
LookupStale(table, id) ==
    IF id \in DOMAIN table THEN Queued ELSE NotFound

\* lines 152-156: the status of the entry, or the error
Lookup(table, id) ==
    IF id \in DOMAIN table THEN table[id].status ELSE NotFound

\* the handler calls get_import_status(id), which awaits the read guard
GetStatusCall(id) ==
    /\ UNCHANGED other_vars
    /\ rd.pc = "idle"
    /\ rd' = [pc |-> "wait", id |-> id]
    /\ UNCHANGED <<applied, fetches, ls, resp>>
    /\ UNCHANGED <<job_status, lock, channel, closed, issued, calls, sub,
                   worker, sent, loop, registry, regCalls, regErr>>

\* line 151: job_status.read().await is granted
GetStatusLock ==
    /\ UNCHANGED other_vars
    /\ rd.pc = "wait"
    /\ CanRead
    /\ lock' = [lock EXCEPT !.readers = @ \cup {"get"}]
    /\ rd' = [rd EXCEPT !.pc = "read"]
    /\ UNCHANGED <<applied, fetches, ls, resp>>
    /\ UNCHANGED <<job_status, channel, closed, issued, calls, sub, worker,
                   sent, loop, registry, regCalls, regErr>>

\* lines 152-156: the lookup; the guard is dropped on return
GetStatusReturn ==
    /\ UNCHANGED other_vars
    /\ rd.pc = "read"
    /\ lock' = [lock EXCEPT !.readers = @ \ {"get"}]
    /\ rd' = [pc |-> "done", id |-> rd.id, result |-> Lookup(job_status, rd.id)]
    /\ UNCHANGED <<applied, fetches, ls, resp>>
    /\ UNCHANGED <<job_status, channel, closed, issued, calls, sub, worker,
                   sent, loop, registry, regCalls, regErr>>

\* the handler has answered; the next request may come
GetStatusDone ==
    /\ UNCHANGED other_vars
    /\ rd.pc = "done"
    /\ rd' = [pc |-> "idle"]
    /\ UNCHANGED <<applied, fetches, ls, resp>>
    /\ UNCHANGED <<job_status, lock, channel, closed, issued, calls, sub,
                   worker, sent, loop, registry, regCalls, regErr>>

(***************************************************************************)
(* get_all_job_status (import.rs 159-167), called by import_job_status_all *)
(* (router/imports.rs 53-64)                                               *)
(***************************************************************************)
\* the id -> status view of the table
StatusMap(table) == [k \in DOMAIN table |-> table[k].status]

\* the handler calls get_all_job_status
ListCall ==
    /\ UNCHANGED other_vars
    /\ ls.pc = "idle"
    /\ ls' = [pc |-> "first"]
    /\ UNCHANGED <<job_status, lock, channel, closed, issued, calls, sub,
                   worker, sent, loop, registry, regCalls, regErr, rd, applied,
                   fetches, resp>>

\* the first read changed: its guard is bound to a name and lives on while
\* the second guard is awaited
ListFirstReadHolding ==
    /\ UNCHANGED other_vars
    /\ ls.pc = "first"
    /\ CanRead
    /\ lock' = [lock EXCEPT !.readers = @ \cup {"list"}]
    /\ ls' = [pc |-> "second"]
    /\ UNCHANGED <<job_status, channel, closed, issued, calls, sub,
                   worker, sent, loop, registry, regCalls, regErr, rd, applied,
                   fetches, resp>>

\* line 160: let _ = job_status.read().await: the guard is granted and, bound
\* to no name, dropped in the same statement
ListFirstRead ==
    /\ UNCHANGED other_vars
    /\ ls.pc = "first"
    /\ CanRead
    /\ ls' = [pc |-> "second"]
    /\ UNCHANGED <<job_status, lock, channel, closed, issued, calls, sub,
                   worker, sent, loop, registry, regCalls, regErr, rd, applied,
                   fetches, resp>>

\* line 162: the second job_status.read().await is granted; at records the
\* table as it is at that instant
ListLock ==
    /\ UNCHANGED other_vars
    /\ ls.pc = "second"
    /\ CanRead
    /\ lock' = [lock EXCEPT !.readers = @ \cup {"list"}]
    /\ ls' = [pc |-> "iter", hm |-> << >>, at |-> StatusMap(job_status)]
    /\ UNCHANGED <<job_status, channel, closed, issued, calls, sub, worker,
                   sent, loop, registry, regCalls, regErr, rd, applied,
                   fetches, resp>>

\* lines 162-164: one turn of the for loop copies one entry, in any order
ListIter(k) ==
    /\ UNCHANGED other_vars
    /\ ls.pc = "iter"
    /\ k \in DOMAIN job_status \ DOMAIN ls.hm
    /\ ls' = [ls EXCEPT !.hm = (k :> job_status[k].status) @@ @]
    /\ UNCHANGED <<job_status, lock, channel, closed, issued, calls, sub,
                   worker, sent, loop, registry, regCalls, regErr, rd, applied,
                   fetches, resp>>

\* lines 164-166: the iterator is exhausted, the guard dropped, Ok(hm) returned
ListReturn ==
    /\ UNCHANGED other_vars
    /\ ls.pc = "iter"
    /\ DOMAIN job_status \subseteq DOMAIN ls.hm
    /\ lock' = [lock EXCEPT !.readers = @ \ {"list"}]
    /\ ls' = [ls EXCEPT !.pc = "done"]
    /\ UNCHANGED <<job_status, channel, closed, issued, calls, sub, worker,
                   sent, loop, registry, regCalls, regErr, rd, applied,
                   fetches, resp>>

\* the handler has answered; the next request may come
ListDone ==
    /\ UNCHANGED other_vars
    /\ ls.pc = "done"
    /\ ls' = [pc |-> "idle"]
    /\ UNCHANGED <<job_status, lock, channel, closed, issued, calls, sub,
                   worker, sent, loop, registry, regCalls, regErr, rd, applied,
                   fetches, resp>>

(***************************************************************************)
(* import_model (router/imports.rs 13-36): the body of the request is      *)
(* deserialized into a Locator by the Json extractor before the handler    *)
(* runs                                                                    *)
(***************************************************************************)
\* request bodies: JSON objects, as records of their fields
Bodies ==
    {[type |-> "locatorv1/disk", path |-> PExists],
     [type |-> "locatorv1/disk", path |-> PRoot],
     [type |-> "locatorv1/hf", repo |-> "org/model", file |-> HfFile],
     [type |-> "locatorv1/disk"],
     [type |-> "locatorv1/hf", repo |-> "org/model"],
     [type |-> "locatorv1/s3", path |-> PExists],
     [path |-> PExists]}

\* from_json changed: a body without a recognised tag is read as a disk locator
from_json_Untagged(body) ==
    IF "path" \in DOMAIN body
    THEN Some([kind |-> "DISK", locator |-> DiskLocator(body.path)])
    ELSE IF {"repo", "file"} \subseteq DOMAIN body
    THEN Some([kind |-> "HF", locator |-> HFLocator(body.repo, body.file)])
    ELSE None

\* Deserialize for Locator (api_types.rs 105-113, #[serde(tag = "type")]): the
\* variant is chosen by the field type, and the fields of the variant's
\* struct (94-103) must be present; None stands for the Err
from_json(body) ==
    IF "type" \notin DOMAIN body THEN None
    ELSE IF body.type = "locatorv1/hf"
    THEN IF {"repo", "file"} \subseteq DOMAIN body
         THEN Some([kind |-> "HF", locator |-> HFLocator(body.repo, body.file)])
         ELSE None
    ELSE IF body.type = "locatorv1/disk"
    THEN IF "path" \in DOMAIN body
         THEN Some([kind |-> "DISK", locator |-> DiskLocator(body.path)])
         ELSE None
    ELSE None

\* lines 17-24: the ImportJob built from the Locator
import_job(locator) ==
    IF locator.kind = "DISK" THEN ImportJobDISK(locator.locator)
    ELSE ImportJobHF(locator.locator)

\* line 15: the extractor rejects the body and the handler does not run
ImportModelReject(body) ==
    /\ UNCHANGED other_vars
    /\ ~from_json(body).some
    /\ resp' = [code |-> "rejected", body |-> body]
    /\ UNCHANGED <<job_status, lock, channel, closed, issued, calls, sub,
                   worker, sent, loop, registry, regCalls, regErr, rd, applied,
                   fetches, ls>>

\* lines 15-28: the extractor yields the Locator and the handler calls
\* start_import with the job built from it
ImportModelAccept(id, body) ==
    /\ calls < MaxJobs
    /\ from_json(body).some
    /\ StartImportCall(id, import_job(from_json(body).val))
    /\ resp' = [code |-> "accepted", body |-> body, id |-> id]

\* every step of the importer but the draw of a new job
Steps ==
    \/ \E id \in Ids : StartImportLock(id)
    \/ \E id \in Ids : StartImportInsert(id)
    \/ \E id \in Ids : StartImportSpawn(id)
    \/ \E id \in Ids : WorkerSendInProgress(id)
    \/ \E id \in Ids : WorkerFetch(id)
    \/ \E id \in Ids : WorkerSendLast(id)
    \/ LoopRecv
    \/ LoopLock
    \/ LoopApply
    \/ LoopRegisterOk
    \/ LoopRegisterErr

\* The importer under any jobs: submissions, workers and the status-apply task
Next ==
    \/ \E id \in Ids, task \in ImportJobs : StartImportBegin(id, task)
    \/ Steps

Spec == Init /\ [][Next]_vars

\* The importer with a client polling get_import_status. Every job imports
\* the same disk file, so the first registration succeeds and a later one
\* fails on the duplicate name and ends the status-apply task.
ApiJobs == {ImportJobDISK(DiskLocator(PExists))}

NextApi ==
    \/ \E id \in Ids, task \in ApiJobs : StartImportBegin(id, task)
    \/ Steps
    \/ \E id \in Ids : GetStatusCall(id)
    \/ GetStatusLock
    \/ GetStatusReturn
    \/ GetStatusDone

SpecApi == Init /\ [][NextApi]_vars

\* The same, with the scheduling the runtime gives: a holder of a guard runs
\* on to the drop of the guard without awaiting, and the RwLock grants a
\* waiting reader the guard once no writer holds it.
SpecApiFair ==
    /\ SpecApi
    /\ WF_vars(GetStatusLock)
    /\ WF_vars(GetStatusReturn)
    /\ WF_vars(LoopApply)
    /\ WF_vars(\E id \in Ids : StartImportInsert(id))

\* The importer with a client polling get_all_job_status
ListSteps ==
    \/ ListCall
    \/ ListFirstRead
    \/ ListLock
    \/ \E k \in Ids : ListIter(k)
    \/ ListReturn
    \/ ListDone

NextList ==
    \/ \E id \in Ids, task \in ApiJobs : StartImportBegin(id, task)
    \/ Steps
    \/ ListSteps

SpecList == Init /\ [][NextList]_vars

\* The same, with the scheduling the runtime gives: the holder of a guard runs
\* on to its drop, and the RwLock, which queues its waiters, grants a waiting
\* reader the guard once the writers before it are done.
SpecListFair ==
    /\ SpecList
    /\ WF_vars(ListFirstRead)
    /\ WF_vars(ListLock)
    /\ WF_vars(\E k \in Ids : ListIter(k))
    /\ WF_vars(ListReturn)
    /\ WF_vars(LoopApply)
    /\ WF_vars(\E id \in Ids : StartImportInsert(id))

\* The importer with a client that polls both routes, one request at a time
NextClients ==
    \/ \E id \in Ids, task \in ApiJobs : StartImportBegin(id, task)
    \/ Steps
    \/ \E id \in Ids : ls.pc = "idle" /\ GetStatusCall(id)
    \/ GetStatusLock
    \/ GetStatusReturn
    \/ GetStatusDone
    \/ rd.pc = "idle" /\ ListCall
    \/ ListFirstRead
    \/ ListLock
    \/ \E k \in Ids : ListIter(k)
    \/ ListReturn
    \/ ListDone

SpecClients == Init /\ [][NextClients]_vars

\* The importer with both clients polling at once; the get_import_status
\* client asks for the id of the first job
NextLock ==
    \/ \E id \in Ids, task \in ApiJobs : StartImportBegin(id, task)
    \/ Steps
    \/ GetStatusCall(1)
    \/ GetStatusLock
    \/ GetStatusReturn
    \/ GetStatusDone
    \/ ListSteps

SpecLock == Init /\ [][NextLock]_vars

\* The importer under one more job than the channel has slots
StartImportBurst(id, task) ==
    /\ calls < ChanCap + 1
    /\ StartImportCall(id, task)
    /\ UNCHANGED resp

NextBurst ==
    \/ \E id \in Ids, task \in ApiJobs : StartImportBurst(id, task)
    \/ Steps

SpecBurst == Init /\ [][NextBurst]_vars

(***************************************************************************)
(* Serialize and Deserialize for Locator (api_types.rs 94-113), through    *)
(* serde_json::to_string and serde_json::from_str as in the test           *)
(* import_locator_serde (router/models.rs 198-216). A JSON object is the   *)
(* record of its fields, and the JSON string of a path the sequence of the *)
(* path's components, all of them UTF-8.                                   *)
(***************************************************************************)
PathComponents == {"dir", "model.bin", NonUtf8}
Paths == UNION {[1 .. k -> PathComponents] : k \in 0 .. MaxPathLen}

\* the values of the enum Locator
Locators ==
    {[kind |-> "DISK", locator |-> DiskLocator(p)] : p \in Paths}
        \cup {[kind |-> "HF", locator |-> HFLocator(r, f)] :
                  r \in HfRepos, f \in Paths}

\* to_json changed: both variants are written with the tag of the Hub variant
to_json_OneTag(l) ==
    IF l.kind = "HF"
    THEN IF to_str(l.locator.file).some
         THEN Some([type |-> "locatorv1/hf", repo |-> l.locator.repo,
                    file |-> l.locator.file])
         ELSE None
    ELSE IF to_str(l.locator.path).some
         THEN Some([type |-> "locatorv1/hf", path |-> l.locator.path])
         ELSE None

\* Serialize for Locator: the variant's tag in the field type, then the fields
\* of its struct. Serialize for PathBuf writes Path::to_str and fails with
\* "path contains invalid UTF-8 characters" when that is None; None stands
\* for the Err.
to_json(l) ==
    IF l.kind = "HF"
    THEN IF to_str(l.locator.file).some
         THEN Some([type |-> "locatorv1/hf", repo |-> l.locator.repo,
                    file |-> l.locator.file])
         ELSE None
    ELSE IF to_str(l.locator.path).some
         THEN Some([type |-> "locatorv1/disk", path |-> l.locator.path])
         ELSE None

\* a Locator value to serialise, or a JSON text to parse
InitSerde ==
    /\ InitImporter
    /\ db = EmptyDb
    /\ dbres = NoCall
    /\ mig = NoMigrations
    /\ conv \in {[pc |-> "value", loc |-> l] : l \in Locators}
                   \cup {[pc |-> "text", json |-> Some(b)] : b \in Bodies}

\* serde_json::to_string(&locator)
SerdeToString ==
    /\ conv.pc = "value"
    /\ LET r == to_json(conv.loc) IN
          conv' = [pc |-> IF r.some THEN "text" ELSE "failed",
                   loc |-> conv.loc, json |-> r]
    /\ UNCHANGED <<importer_vars, db, dbres, mig>>

\* serde_json::from_str::<Locator>(text)
SerdeFromStr ==
    /\ conv.pc = "text"
    /\ conv' = [conv EXCEPT !.pc = "parsed"] @@ [back |-> from_json(conv.json.val)]
    /\ UNCHANGED <<importer_vars, db, dbres, mig>>

NextSerde ==
    \/ SerdeToString
    \/ SerdeFromStr

SpecSerde == InitSerde /\ [][NextSerde]_vars

(***************************************************************************)
(* DB (db/tables.rs): the tables of ROOT_SCHEMA as sets of rows, and       *)
(* get_models (103-173)                                                    *)
(***************************************************************************)
\* values of model.id (the text of a Uuid), of model.name and of
\* model_version.version (the text of a semver::Version, by its numbers)
ModelIds == 1 .. MaxModels
ModelNames == {"a.bin", "b.bin", "c.bin"}
VersionTexts == {<<0, 1, 0>>, <<0, 2, 0>>}

\* the row register_model builds for the model table (lines 42-52)
ModelRow(id, name) ==
    [id |-> id, name |-> name, model_type |-> "completion",
     runtime |-> "ggml", description |-> ""]

\* import_metadata.source as register_model writes it (line 83): the JSON
\* text of an ImportSource (api_types.rs 115-123)
SourceText == [type |-> "importv1/disk", path |-> PExists]

\* the tables holding models ms with names nm and versions vs, each version
\* with the rows register_model inserts for it (lines 59-95)
Registered(ms, nm, vs) ==
    LET mv == {p \in ms \X VersionTexts : p[2] \in vs[p[1]]}
    IN  [model |-> {ModelRow(i, nm[i]) : i \in ms},
         model_version |-> {[model_id |-> p[1], version |-> p[2]] : p \in mv},
         import_metadata |->
             {[model_id |-> p[1], model_version |-> p[2],
               source |-> SourceText, imported_at |-> "t0"] : p \in mv},
         model_params |->
             {[model_id |-> p[1], model_version |-> p[2],
               params |-> PExists] : p \in mv},
         saved_experiments |-> {}]

\* the databases explored: any models, with names that differ (name is
\* unique in ROOT_SCHEMA, line 305) and any versions
Databases ==
    {Registered(ms, nm, vs) :
        <<ms, nm, vs>> \in
            {t \in UNION {{ms} \X [ms -> ModelNames] \X [ms -> SUBSET VersionTexts] :
                             ms \in SUBSET ModelIds} :
                \A i, j \in t[1] : i # j => t[2][i] # t[2][j]}}

\* the rows of a finite set of <<key, row>> pairs as a sequence, least key first
RECURSIVE InOrder(_)
InOrder(keyed) ==
    IF keyed = {} THEN << >>
    ELSE LET first == CHOOSE p \in keyed : \A q \in keyed : p[1] <= q[1]
         IN  <<first[2]>> \o InOrder(keyed \ {first})

\* Deserialize for ImportSource (api_types.rs 115-123); None stands for the Err
source_from_json(text) ==
    IF "type" \notin DOMAIN text THEN None
    ELSE IF text.type = "importv1/hf" /\ {"repo", "file"} \subseteq DOMAIN text
    THEN Some([kind |-> "HF", source |-> HFLocator(text.repo, text.file)])
    ELSE IF text.type = "importv1/disk" /\ "path" \in DOMAIN text
    THEN Some([kind |-> "DISK", source |-> DiskLocator(text.path)])
    ELSE None

\* the join changed: the condition model_version.model_id = :id is left out
VersionJoinAnyModel(d, id) ==
    {t \in d.model \X d.model_version \X d.model_params \X d.import_metadata :
        /\ t[1].id = t[2].model_id
        /\ t[2].model_id = t[3].model_id
        /\ t[2].version = t[3].model_version
        /\ t[2].model_id = t[4].model_id
        /\ t[2].version = t[4].model_version}

\* lines 125-134: the rows of the join of model, model_version, model_params
\* and import_metadata for model id
VersionJoin(d, id) ==
    {t \in d.model \X d.model_version \X d.model_params \X d.import_metadata :
        /\ t[1].id = t[2].model_id
        /\ t[2].model_id = t[3].model_id
        /\ t[2].version = t[3].model_version
        /\ t[2].model_id = t[4].model_id
        /\ t[2].version = t[4].model_version
        /\ t[2].model_id = id}

\* the place of a version text in the order by (single-digit numbers)
VersionKey(t) == t[2].version[1] * 100 + t[2].version[2] * 10 + t[2].version[3]

\* lines 136-153: the versions of one model, ordered by version; None when a
\* source does not parse
ModelVersions(d, id) ==
    LET rows == InOrder({<<VersionKey(t), t>> : t \in VersionJoin(d, id)})
    IN  IF \E i \in 1 .. Len(rows) : ~source_from_json(rows[i][4].source).some
        THEN None
        ELSE Some([i \in 1 .. Len(rows) |->
                      [version |-> rows[i][2].version,
                       import_metadata |->
                           [imported_at |-> rows[i][4].imported_at,
                            source |-> source_from_json(rows[i][4].source).val]]])

\* lines 103-173: one RegisteredModel per row of the model table
get_models(d) ==
    LET rows == InOrder({<<r.id, r>> : r \in d.model})
        bad(r) == \/ ~ModelVersions(d, r.id).some
                  \/ r.model_type # "completion"
                  \/ r.runtime # "ggml"
    IN  IF \E i \in 1 .. Len(rows) : bad(rows[i])
        THEN [type |-> "Err"]
        ELSE [type |-> "Ok",
              val |-> [i \in 1 .. Len(rows) |->
                          [id |-> rows[i].id,
                           name |-> rows[i].name,
                           model_type |-> rows[i].model_type,
                           runtime |-> rows[i].runtime,
                           versions |-> ModelVersions(d, rows[i].id).val]]]

\* DB::open on a database file that holds the schema and any registrations
InitDb ==
    /\ InitImporter
    /\ conv = NoConv
    /\ db \in Databases
    /\ dbres = NoCall
    /\ mig = NoMigrations

\* a call of get_models
GetModels ==
    /\ dbres' = [fn |-> "get_models", result |-> get_models(db)]
    /\ UNCHANGED <<importer_vars, conv, db, mig>>

NextDb == GetModels

SpecDb == InitDb /\ [][NextDb]_vars

(***************************************************************************)
(* The statements of DB on the tables of ROOT_SCHEMA (db/tables.rs         *)
(* 302-356), as SQLite executes them on a connection that DB::open has put *)
(* under PRAGMA foreign_keys = ON (line 26)                                *)
(***************************************************************************)
TableColumns ==
    [model |-> {"id", "name", "model_type", "runtime", "description"},
     model_version |-> {"model_id", "version"},
     import_metadata |-> {"model_id", "model_version", "source", "imported_at"},
     model_params |-> {"model_id", "model_version", "params"},
     saved_experiments |-> {"id", "model_id", "model_version", "temperature",
                            "tokens", "prompt", "output", "created_at"}]

PrimaryKeys ==
    [model |-> {"id"},
     model_version |-> {"model_id", "version"},
     import_metadata |-> {"model_id", "model_version"},
     model_params |-> {"model_id", "model_version"},
     saved_experiments |-> {"id"}]

\* the columns declared unique
UniqueColumns ==
    [model |-> {"name"}, model_version |-> {}, import_metadata |-> {},
     model_params |-> {}, saved_experiments |-> {}]

\* the foreign key clauses: column of the child references key of the parent
ForeignKey(c, col, p, k) == [child |-> c, column |-> col, parent |-> p, key |-> k]
ForeignKeys ==
    {ForeignKey("model_version", "model_id", "model", "id"),
     ForeignKey("import_metadata", "model_id", "model", "id"),
     ForeignKey("import_metadata", "model_version", "model_version", "version"),
     ForeignKey("model_params", "model_id", "model", "id"),
     ForeignKey("model_params", "model_version", "model_version", "version"),
     ForeignKey("saved_experiments", "model_id", "model", "id"),
     ForeignKey("saved_experiments", "model_version", "model", "version")}

\* SQLite requires the parent key of a foreign key to be the primary key of
\* the parent table or a column set declared unique; a statement that needs
\* a foreign key that is not so fails with "foreign key mismatch"
ParentKeyOk(fk) ==
    /\ fk.key \in TableColumns[fk.parent]
    /\ \/ PrimaryKeys[fk.parent] = {fk.key}
       \/ fk.key \in UniqueColumns[fk.parent]
Mismatched == {fk \in ForeignKeys : ~ParentKeyOk(fk)}

\* the result of a statement or of a method of DB
DbOk(d) == [type |-> "Ok", db |-> d]
DbErr(m) == [type |-> "Err", msg |-> m]

\* insert into table values row
insert(d, table, row) ==
    IF \E fk \in Mismatched : fk.child = table
    THEN DbErr("foreign key mismatch")
    ELSE IF \E r \in d[table] : \A c \in PrimaryKeys[table] : r[c] = row[c]
    THEN DbErr("UNIQUE constraint failed")
    ELSE IF \E c \in UniqueColumns[table] : \E r \in d[table] : r[c] = row[c]
    THEN DbErr("UNIQUE constraint failed")
    ELSE IF \E fk \in ForeignKeys :
                /\ fk.child = table
                /\ ~\E p \in d[fk.parent] : p[fk.key] = row[fk.column]
    THEN DbErr("FOREIGN KEY constraint failed")
    ELSE DbOk([d EXCEPT ![table] = @ \cup {row}])

\* delete from table where the row is in gone. A delete needs the foreign
\* keys table is the child of and those it is the parent of.
delete(d, table, gone) ==
    IF \E fk \in Mismatched : fk.child = table \/ fk.parent = table
    THEN DbErr("foreign key mismatch")
    ELSE IF \E fk \in ForeignKeys :
                /\ fk.parent = table
                /\ \E r \in gone : \E c \in d[fk.child] : c[fk.column] = r[fk.key]
    THEN DbErr("FOREIGN KEY constraint failed")
    ELSE DbOk([d EXCEPT ![table] = @ \ gone])

\* the unique check changed: no name is ever found taken
NameTakenNever(d, name, id) == FALSE

\* another row of model has the name
NameTaken(d, name, id) == \E r \in d.model : r.name = name /\ r.id # id

\* update model set name = new where name = old: name is no key of a foreign
\* key, so only its unique constraint is checked
update_name(d, old, new) ==
    LET rows == {r \in d.model : r.name = old}
    IN  IF \E r \in rows : NameTaken(d, new, r.id)
        THEN DbErr("UNIQUE constraint failed")
        ELSE DbOk([d EXCEPT !.model =
                      (@ \ rows) \cup {[r EXCEPT !.name = new] : r \in rows}])

\* select id from model where name = :name, as query_row: Err for no row
select_id(d, name) ==
    IF \E r \in d.model : r.name = name
    THEN Some((CHOOSE r \in d.model : r.name = name).id)
    ELSE None

\* the statements of a transaction one after the other, from tables d: the
\* tables after the commit, or the first Err, on which the transaction is
\* dropped and rolled back
RECURSIVE Transaction(_, _)
Transaction(d, stmts) ==
    IF stmts = << >> THEN DbOk(d)
    ELSE LET r == IF Head(stmts).op = "insert"
                  THEN insert(d, Head(stmts).table, Head(stmts).row)
                  ELSE delete(d, Head(stmts).table, Head(stmts).gone)
         IN  IF r.type = "Err" THEN r ELSE Transaction(r.db, Tail(stmts))

InsertStmt(t, row) == [op |-> "insert", table |-> t, row |-> row]
DeleteStmt(t, gone) == [op |-> "delete", table |-> t, gone |-> gone]

\* Uuid::new_v4 of register_model (line 41): an id no row has
NewModelId(d) ==
    CHOOSE i \in 1 .. (MaxModels + 1) :
        /\ \A r \in d.model : r.id # i
        /\ \A k \in 1 .. (MaxModels + 1) : (\A r \in d.model : r.id # k) => i <= k

\* lines 59-95: the four inserts of register_model for model id
RegisterStmts(id, request) ==
    <<InsertStmt("model", ModelRow(id, request.model)),
      InsertStmt("model_version", [model_id |-> id, version |-> request.version]),
      InsertStmt("import_metadata",
                 [model_id |-> id, model_version |-> request.version,
                  source |-> request.source, imported_at |-> "t0"]),
      InsertStmt("model_params",
                 [model_id |-> id, model_version |-> request.version,
                  params |-> request.model_path])>>

\* register_model changed: the inserts run outside a transaction, so those
\* made before a failing one stay
register_model_NoRollback(d, request) ==
    LET id == NewModelId(d)
        s1 == insert(d, "model", RegisterStmts(id, request)[1].row)
        s2 == insert(s1.db, "model_version", RegisterStmts(id, request)[2].row)
        s3 == insert(s2.db, "import_metadata", RegisterStmts(id, request)[3].row)
    IN  IF s1.type = "Err" THEN [result |-> s1, db |-> d]
        ELSE IF s2.type = "Err" THEN [result |-> s2, db |-> s1.db]
        ELSE IF s3.type = "Err" THEN [result |-> s3, db |-> s2.db]
        ELSE [result |-> DbErr("insert model_params table"), db |-> s3.db]

\* register_model (lines 37-101): the result and the tables it leaves
register_model(d, request) ==
    LET id == NewModelId(d)
        r == Transaction(d, RegisterStmts(id, request))
    IN  IF r.type = "Err" THEN [result |-> r, db |-> d]
        ELSE [result |-> [type |-> "Ok", id |-> id], db |-> r.db]

\* rename_model (lines 205-217)
rename_model(d, model_name, new_model_name) ==
    LET r == update_name(d, model_name, new_model_name)
    IN  IF r.type = "Err" THEN [result |-> r, db |-> d]
        ELSE [result |-> [type |-> "Ok"], db |-> r.db]

\* lines 230-248: the five deletes of delete_model for model_id
DeleteModelStmts(d, model_id) ==
    <<DeleteStmt("saved_experiments",
                 {r \in d.saved_experiments : r.model_id = model_id}),
      DeleteStmt("model_params", {r \in d.model_params : r.model_id = model_id}),
      DeleteStmt("import_metadata",
                 {r \in d.import_metadata : r.model_id = model_id}),
      DeleteStmt("model_version", {r \in d.model_version : r.model_id = model_id}),
      DeleteStmt("model", {r \in d.model : r.id = model_id})>>

\* delete_model (lines 219-254)
delete_model(d, model_name) ==
    LET model_id == select_id(d, model_name)
    IN  IF ~model_id.some
        THEN [result |-> DbErr("Query returned no rows"), db |-> d]
        ELSE LET r == Transaction(d, DeleteModelStmts(d, model_id.val))
             IN  IF r.type = "Err" THEN [result |-> r, db |-> d]
                 ELSE [result |-> [type |-> "Ok"], db |-> r.db]

\* lines 271-292: the four deletes of delete_model_version
DeleteVersionStmts(d, model_id, version) ==
    <<DeleteStmt("saved_experiments",
                 {r \in d.saved_experiments :
                     r.model_id = model_id /\ r.model_version = version}),
      DeleteStmt("model_params",
                 {r \in d.model_params :
                     r.model_id = model_id /\ r.model_version = version}),
      DeleteStmt("import_metadata",
                 {r \in d.import_metadata :
                     r.model_id = model_id /\ r.model_version = version}),
      DeleteStmt("model_version",
                 {r \in d.model_version :
                     r.model_id = model_id /\ r.version = version})>>

\* delete_model_version (lines 256-297)
delete_model_version(d, model_name, version) ==
    LET model_id == select_id(d, model_name)
    IN  IF ~model_id.some
        THEN [result |-> DbErr("Query returned no rows"), db |-> d]
        ELSE LET r == Transaction(d, DeleteVersionStmts(d, model_id.val, version))
             IN  IF r.type = "Err" THEN [result |-> r, db |-> d]
                 ELSE [result |-> [type |-> "Ok"], db |-> r.db]

\* the requests register_model is called with
Requests ==
    {[model |-> n, version |-> <<0, 1, 0>>, source |-> SourceText,
      model_path |-> PExists] : n \in ModelNames}

\* a call of a method of DB: the connection's mutex is held from the start
\* of the transaction to its end, so the call is one step
DbCall(fn, args, out) ==
    /\ db' = out.db
    /\ dbres' = [fn |-> fn, args |-> args, before |-> db, result |-> out.result]
    /\ UNCHANGED <<importer_vars, conv, mig>>

RegisterModel(request) ==
    DbCall("register_model", <<request>>, register_model(db, request))

RenameModel(old, new) ==
    DbCall("rename_model", <<old, new>>, rename_model(db, old, new))

DeleteModel(name) ==
    DbCall("delete_model", <<name>>, delete_model(db, name))

DeleteModelVersion(name, version) ==
    DbCall("delete_model_version", <<name, version>>,
           delete_model_version(db, name, version))

NextDbOps ==
    \/ \E request \in Requests : RegisterModel(request)
    \/ \E old, new \in ModelNames : RenameModel(old, new)
    \/ \E name \in ModelNames : DeleteModel(name)
    \/ \E name \in ModelNames, version \in VersionTexts :
           DeleteModelVersion(name, version)
    \/ GetModels

SpecDbOps == InitDb /\ [][NextDbOps]_vars

(***************************************************************************)
(* LinearMigrationManager (db/manager.rs): the registered migrations in    *)
(* the order of registration. A migration is known by what its forward     *)
(* returns when run: Ok or an error.                                       *)
(***************************************************************************)
MaxMigrations == 2
Migrations == {"ok", "fail"}

\* the versions upgrade_schema is called with
Versions == 0 .. (MaxMigrations + 1)

\* get_target_schema_version (lines 80-82)
get_target_schema_version(m) == Len(m.migrations)

\* lines 95-101: the loop of upgrade_schema from index i, the indices in ran
\* having been run: the indices run and the result. migrations.get(i) is
\* None past the last migration, where the unwrap panics.
RECURSIVE RunMigrations(_, _, _, _)
RunMigrations(migrations, i, to, ran) ==
    IF i >= to THEN [ran |-> ran, result |-> [type |-> "Ok"]]
    ELSE IF i + 1 > Len(migrations) THEN [ran |-> ran, result |-> [type |-> "panic"]]
    ELSE IF migrations[i + 1] = "fail"
    THEN [ran |-> Append(ran, i), result |-> [type |-> "Err", error |-> <<"forward", i>>]]
    ELSE RunMigrations(migrations, i + 1, to, Append(ran, i))

\* upgrade_schema changed: the first check is from > len
upgrade_schema_Gt(m, from, to) ==
    IF from > Len(m.migrations)
    THEN [ran |-> << >>, result |-> [type |-> "Err", error |-> "InvalidSchemaVersion"]]
    ELSE IF to < from
    THEN [ran |-> << >>, result |-> [type |-> "Err", error |-> "InvalidSchemaRange"]]
    ELSE RunMigrations(m.migrations, from, to, << >>)

\* upgrade_schema (lines 84-104): the indices of the migrations run, in the
\* order they ran, and the result
upgrade_schema(m, from, to) ==
    IF from >= Len(m.migrations)
    THEN [ran |-> << >>, result |-> [type |-> "Err", error |-> "InvalidSchemaVersion"]]
    ELSE IF to < from
    THEN [ran |-> << >>, result |-> [type |-> "Err", error |-> "InvalidSchemaRange"]]
    ELSE RunMigrations(m.migrations, from, to, << >>)

\* register_migration (lines 38-41)
RegisterMigration(migration) ==
    /\ Len(mig.migrations) < MaxMigrations
    /\ mig' = [mig EXCEPT !.migrations = Append(@, migration)]
    /\ UNCHANGED <<importer_vars, conv, db, dbres>>

\* a call of upgrade_schema, on the migrations registered when it is made
UpgradeSchema(from, to) ==
    /\ mig' = [mig EXCEPT !.call =
                  [fn |-> "upgrade_schema", on |-> mig.migrations,
                   from |-> from, to |-> to,
                   ran |-> upgrade_schema(mig, from, to).ran,
                   result |-> upgrade_schema(mig, from, to).result]]
    /\ UNCHANGED <<importer_vars, conv, db, dbres>>

NextMig ==
    \/ \E migration \in Migrations : RegisterMigration(migration)
    \/ \E from, to \in Versions : UpgradeSchema(from, to)

SpecMig == Init /\ [][NextMig]_vars

\* The importer behind the import_model route
NextHttp ==
    \/ \E id \in Ids, body \in Bodies : ImportModelAccept(id, body)
    \/ \E body \in Bodies : ImportModelReject(body)
    \/ Steps

SpecHttp == Init /\ [][NextHttp]_vars


(***************************************************************************)
(* Properties                                                              *)
(***************************************************************************)
Terminal(st) == st.type \in {"Completed", "Failed"}
Terminals(msgs) == {i \in 1 .. Len(msgs) : Terminal(msgs[i])}
Ended(w) == w.pc \in {"done", "err", "panicked"}
Jobs == DOMAIN job_status
StatusOf(j) == job_status[j].status

\* the fetch of the task cannot succeed: the disk path does not exist, or the
\* hub does not serve the file
FetchFails(task) ==
    IF task.kind = "DISK" THEN task.locator.path \notin FileSystem
    ELSE <<task.locator.repo, task.locator.file>> \notin Hub

\* one step of Queued -> InProgress* -> {Completed | Failed}
StatusStep(a, b) ==
    \/ a = b
    \/ a.type = "Queued" /\ b.type \in {"InProgress", "Completed", "Failed"}
    \/ a.type = "InProgress" /\ b.type \in {"InProgress", "Completed", "Failed"}

\* C1: in every step, the status of every stored entry either stays as it is
\* or moves forward along Queued -> InProgress* -> {Completed | Failed}; a
\* terminal status never changes and no status returns to Queued.
C1_StatusMonotonic ==
    [][\A j \in Jobs : j \in DOMAIN job_status' =>
            StatusStep(job_status[j].status, job_status'[j].status)]_vars

\* a job is Completed while the task goes on applying another job's update
C1_Witness ==
    \E j, k \in Jobs :
        /\ StatusOf(j).type = "Completed"
        /\ StatusOf(k).type = "InProgress"
        /\ loop.pc = "lock"

\* C2: every worker that has ended has put exactly one terminal message
\* (Completed or Failed) on the channel.
C2_ExactlyOneTerminal ==
    \A j \in DOMAIN worker :
        Ended(worker[j]) => Cardinality(Terminals(sent[j])) = 1

\* C3: a worker whose fetch cannot succeed and that has run to its end has
\* sent Failed with an error message, and never Completed.
C3_FetchFailureIsFailed ==
    \A j \in DOMAIN worker :
        (FetchFails(worker[j].task) /\ worker[j].pc \in {"done", "panicked"}) =>
            /\ \E i \in 1 .. Len(sent[j]) :
                   sent[j][i].type = "Failed" /\ sent[j][i].error.some
            /\ \A i \in 1 .. Len(sent[j]) : sent[j][i].type # "Completed"

\* C4: the status-apply task survives every failure while it handles a
\* message: it is never ended and its receiver is never dropped, so later
\* messages are still received.
C4_LoopKeepsConsuming == loop.pc # "dead" /\ ~closed

\* the fetch of worker w has returned a path
Fetched(w) == w.path.some

\* nothing more will be applied for job j
Settled(j) ==
    /\ Ended(worker[j])
    /\ \A i \in 1 .. Len(channel) : channel[i].job # j
    /\ loop.pc \in {"recv", "dead"}

\* C5: a worker whose fetch returned path p and that has finished sent
\* Completed with info = Some(p) (for DISK, the locator's path), and once
\* nothing is pending for the job its stored status is that Completed.
C5_SuccessIsCompleted ==
    \A j \in DOMAIN worker :
        LET w == worker[j]
            p == IF w.task.kind = "DISK" THEN w.task.locator.path ELSE w.path.val
        IN  (Fetched(w) /\ w.pc \in {"done", "err"}) =>
                /\ w.pc = "done" => sent[j][Len(sent[j])] = Completed(Some(p))
                /\ Settled(j) => StatusOf(j) = Completed(Some(p))

\* C6: a job whose register_model call failed has status Completed.
C6_RegErrKeepsCompleted ==
    \A j \in regErr : j \in Jobs /\ StatusOf(j).type = "Completed"

\* a registration has failed and the job's worker has ended
C6_Witness ==
    \E j \in regErr : Ended(worker[j]) /\ StatusOf(j).type = "Completed"

\* C7: register_model is called at most once per job and only for a job whose
\* status is Completed, and a job whose Completed message has been handled
\* has had its one call.
C7_RegisterOncePerCompleted ==
    \A j \in Jobs :
        /\ regCalls[j] <= 1
        /\ regCalls[j] = 1 => StatusOf(j).type = "Completed"
        /\ (StatusOf(j).type = "Completed" /\ loop.msg.job # j) => regCalls[j] = 1

\* C8: in every step the key set of job_status keeps every key it had, so its
\* size never decreases, and every entry keeps its task; an id that
\* start_import has returned is a key.
C8_EntriesOnlyGrow ==
    [][/\ Jobs \subseteq DOMAIN job_status'
       /\ Cardinality(Jobs) <= Cardinality(DOMAIN job_status')
       /\ \A j \in Jobs : job_status'[j].task = job_status[j].task
       /\ \A j \in DOMAIN sub' : sub'[j].pc = "returned" => j \in DOMAIN job_status'
      ]_vars

\* two entries, one of them updated to a terminal status
C8_Witness ==
    /\ Cardinality(Jobs) >= 2
    /\ \E j \in Jobs : Terminal(StatusOf(j))
    /\ \A j \in DOMAIN sub : sub[j].pc = "returned"

C10_UnknownIdNotFound ==
    /\ [](rd.pc = "done" /\ rd.id \notin issued => rd.result = NotFound)
    /\ [][rd' # rd => job_status' = job_status]_vars
    /\ (rd.pc = "wait") ~> (rd.pc = "done")

\* the call has returned the error while jobs are stored and the task is busy
C10_Witness ==
    /\ rd.pc = "done"
    /\ rd.id \notin issued
    /\ rd.result = NotFound
    /\ Jobs # {}
    /\ lock.writer = LoopWriter


\* the status the task has last assigned to job j, Queued if none
LastApplied(j) ==
    IF applied[j] = << >> THEN Queued ELSE applied[j][Len(applied[j])]

\* C11: a get_import_status call for a stored id returns the status the
\* status-apply task has last assigned to that entry, or Queued if it has
\* assigned none, and no writer holds the lock while the call reads.
C11_ReadsStoredStatus ==
    /\ [](rd.pc = "read" => lock.writer = NoWriter /\ "get" \in lock.readers)
    /\ [][(rd.pc = "read" /\ rd'.pc = "done" /\ rd.id \in Jobs) =>
              rd'.result = LastApplied(rd.id)]_vars

\* the call answers InProgress while the job's Completed message is under way
C11_Witness ==
    /\ rd.pc = "done"
    /\ rd.result = InProgress(0)
    /\ Len(sent[rd.id]) = 2
    /\ Len(applied[rd.id]) = 1

\* C12: the map get_all_job_status builds and returns equals the id -> status
\* contents of the table at the instant its read guard was granted; while it
\* iterates the table does not change.
C12_ListIsSnapshot ==
    /\ ls.pc = "iter" =>
          /\ StatusMap(job_status) = ls.at
          /\ \A k \in DOMAIN ls.hm : k \in DOMAIN ls.at /\ ls.hm[k] = ls.at[k]
    /\ ls.pc = "done" => ls.hm = ls.at

\* a snapshot of two entries has been returned and the table has moved on
C12_Witness ==
    /\ ls.pc = "done"
    /\ Cardinality(DOMAIN ls.hm) >= 2
    /\ StatusMap(job_status) # ls.hm

\* C13: a start_import call that is past its insert has its entry in the
\* table, a worker exists only for an id that has an entry, and a
\* get_import_status call reading after start_import returned the id does not
\* answer with the error.
C13_InsertBeforeSpawnAndReturn ==
    /\ [](\A id \in DOMAIN sub : sub[id].pc \in {"spawn", "returned"} => id \in Jobs)
    /\ [](\A id \in DOMAIN worker : id \in Jobs)
    /\ [][(rd.pc = "read" /\ rd'.pc = "done" /\ rd.id \in DOMAIN sub
             /\ sub[rd.id].pc = "returned") => rd'.result # NotFound]_vars

\* start_import has returned, the worker has not started, and the id reads
\* Queued
C13_Witness ==
    /\ rd.pc = "done"
    /\ rd.id \in DOMAIN worker
    /\ sub[rd.id].pc = "returned"
    /\ worker[rd.id].pc = "start"
    /\ rd.result = Queued

IsPrefix(a, b) == Len(a) <= Len(b) /\ \A i \in 1 .. Len(a) : a[i] = b[i]

\* the statuses of job j the task has received, in the order of receipt
Received(j) ==
    applied[j] \o (IF loop.pc \in {"lock", "apply"} /\ loop.msg.job = j
                   THEN <<loop.msg.status>> ELSE << >>)

\* the statuses of job j buffered in the channel, oldest first
Buffered(j) ==
    LET q == SelectSeq(channel, LAMBDA m : m.job = j)
    IN  [i \in 1 .. Len(q) |-> q[i].status]

\* C17: the statuses of a job the task has received are, in order, the first
\* ones its worker sent, and a terminal status is applied only after the
\* job's InProgress.
C17_PerWorkerOrder ==
    \A j \in Ids :
        /\ IsPrefix(Received(j), sent[j])
        /\ \A i \in 1 .. Len(applied[j]) :
               Terminal(applied[j][i]) =>
                   i > 1 /\ applied[j][1].type = "InProgress"

\* both messages of one job are applied, with another job's in between or after
C17_Witness ==
    \E j, k \in Ids :
        /\ j # k
        /\ Len(applied[j]) = 2
        /\ Len(applied[k]) = 1
        /\ Len(sent[k]) = 2

\* C18: a worker that has called its importer has before that put
\* InProgress{progress = 0} on the channel as its first message.
C18_InProgressBeforeFetch ==
    \A j \in Ids :
        fetches[j] # << >> => sent[j] # << >> /\ sent[j][1] = InProgress(0)

\* a worker has fetched and not yet sent its second message
C18_Witness ==
    \E j \in DOMAIN worker :
        worker[j].pc = "send" /\ Len(fetches[j]) = 1 /\ Len(sent[j]) = 1

\* C20: the status of a stored entry changes only in the step in which the
\* status-apply task assigns the message it holds, under its write guard; a
\* new entry is inserted by start_import with status Queued.
C20_OnlyLoopWritesStatus ==
    [][/\ \A j \in Jobs \cap DOMAIN job_status' :
              job_status'[j].status # job_status[j].status =>
                  /\ loop.pc = "apply"
                  /\ loop'.pc # "apply"
                  /\ loop.msg.job = j
                  /\ lock.writer = LoopWriter
       /\ \A j \in DOMAIN job_status' \ Jobs :
              /\ job_status'[j].status = Queued
              /\ j \in DOMAIN sub
              /\ sub[j].pc = "insert"
              /\ lock.writer = SubWriter(j)
      ]_vars

\* a job has been taken from Queued to Completed by the task while the
\* client was polling, and a second entry has been inserted
C20_Witness ==
    /\ rd.pc = "done"
    /\ rd.result.type = "Completed"
    /\ Len(applied[rd.id]) = 2
    /\ \E j \in Jobs : j # rd.id /\ StatusOf(j) = Queued


\* a structurally valid locator: a Hub locator with repository and file, or a
\* Disk locator with a path
WellFormed(body) ==
    /\ "type" \in DOMAIN body
    /\ \/ body.type = "locatorv1/disk" /\ "path" \in DOMAIN body
       \/ body.type = "locatorv1/hf" /\ {"repo", "file"} \subseteq DOMAIN body

\* C14: a request with a malformed locator is rejected before the handler
\* runs and changes neither the table nor the calls, workers and channel; a
\* request with a well-formed locator starts a start_import call for a job
\* of the locator's variant.
C14_MalformedRejected ==
    [][resp' # resp =>
            IF WellFormed(resp'.body)
            THEN /\ resp'.code = "accepted"
                 /\ calls' = calls + 1
                 /\ resp'.id \in DOMAIN sub' \ DOMAIN sub
                 /\ sub'[resp'.id].task.kind =
                        (IF resp'.body.type = "locatorv1/disk" THEN "DISK" ELSE "HF")
            ELSE /\ resp'.code = "rejected"
                 /\ UNCHANGED <<job_status, sub, worker, issued, calls, channel>>
       ]_vars

\* a malformed request has been rejected after an accepted one
C14_Witness ==
    /\ resp.code = "rejected"
    /\ ~WellFormed(resp.body)
    /\ calls = 1
    /\ Cardinality(Jobs) = 1
    /\ Cardinality(DOMAIN worker) = 1


\* a Disk job whose file exists and whose path has a UTF-8 file name
ValidDisk(task) ==
    /\ task.kind = "DISK"
    /\ task.locator.path \in FileSystem
    /\ LocatorFileName(task).some
    /\ to_str(task.locator.path).some

\* every call has returned, every worker has ended and the task has nothing
\* left to receive
Quiescent ==
    /\ \A id \in DOMAIN sub : sub[id].pc = "returned"
    /\ \A id \in DOMAIN worker : Ended(worker[id])
    /\ channel = << >>
    /\ loop.pc \in {"recv", "dead"}

\* C15: when only valid Disk jobs have been submitted and nothing is left to
\* run, the table holds one entry per submission and every one is Completed.
C15_AllValidDiskComplete ==
    ((\A id \in DOMAIN sub : ValidDisk(sub[id].task)) /\ Quiescent) =>
        /\ Cardinality(Jobs) = calls
        /\ \A j \in Jobs : StatusOf(j).type = "Completed"

\* C16: every status a worker has sent is applied, held by the task or
\* buffered in the channel: none is dropped.
C16_NoMessageLost ==
    \A j \in Ids : sent[j] = Received(j) \o Buffered(j)

\* C19: no worker calls an importer twice, a call is the importer of the
\* task's variant on the task's own locator, and a worker that has ended has
\* made its call.
C19_FetchExactlyOnce ==
    \A j \in DOMAIN worker :
        /\ Len(fetches[j]) <= 1
        /\ \A i \in 1 .. Len(fetches[j]) : fetches[j][i] = Call(sub[j].task)
        /\ Ended(worker[j]) => Len(fetches[j]) = 1

\* C21: the task held by a stored entry is, in every state, the task its
\* start_import call was made with, and the source of a registration request
\* is that task's locator, of the same variant.
C21_TaskReadOnly ==
    /\ \A j \in Jobs : j \in DOMAIN sub /\ job_status[j].task = sub[j].task
    /\ loop.pc = "register" =>
           loop.req.val.source =
               [kind |-> sub[loop.msg.job].task.kind,
                source |-> sub[loop.msg.job].task.locator]

\* the request of a Hub job is built while a job with another locator is stored
C21_Witness ==
    /\ loop.pc = "register"
    /\ job_status[loop.msg.job].task.kind = "HF"
    /\ Len(applied[loop.msg.job]) = 2
    /\ \E j \in Jobs : job_status[j].task # job_status[loop.msg.job].task

\* C22: in every state the lock is held by no writer or by no reader; its
\* readers are the get_import_status and get_all_job_status calls that are
\* reading, and its writer is the one start_import call at its insert or the
\* status-apply task at its assignment.
C22_ReaderWriterLock ==
    /\ lock.writer = NoWriter \/ lock.readers = {}
    /\ lock.readers \subseteq {"get", "list"}
    /\ "get" \in lock.readers <=> rd.pc = "read"
    /\ "list" \in lock.readers <=> ls.pc = "iter"
    /\ lock.writer = LoopWriter <=> loop.pc = "apply"
    /\ \A id \in Ids :
           lock.writer = SubWriter(id) <=> (id \in DOMAIN sub /\ sub[id].pc = "insert")
    /\ lock.writer \in {NoWriter, LoopWriter} \cup {SubWriter(id) : id \in Ids}

\* both readers hold the lock at once while both kinds of writer wait for it
C22_Witness ==
    /\ lock.readers = {"get", "list"}
    /\ lock.writer = NoWriter
    /\ loop.pc = "lock"
    /\ \E id \in DOMAIN sub : sub[id].pc = "lock"

\* C23: the status-apply task holds the write guard only at its assignment:
\* when it has built the request and calls register_model the status is
\* already assigned and the guard released, and it holds no guard while it
\* receives or waits.
C23_NoLockWhileRegistering ==
    /\ loop.pc = "register" =>
           /\ lock.writer # LoopWriter
           /\ loop.req.some
           /\ StatusOf(loop.msg.job) = loop.msg.status
    /\ loop.pc \in {"recv", "lock", "dead"} => lock.writer # LoopWriter
    /\ loop.pc = "apply" => lock.writer = LoopWriter /\ ~loop.req.some

\* register_model is being called while a start_import call holds the guard
C23_Witness ==
    /\ loop.pc = "register"
    /\ \E id \in DOMAIN sub : sub[id].pc = "insert" /\ lock.writer = SubWriter(id)

\* the workers that are at their fetch
Fetching == {j \in DOMAIN worker : worker[j].pc = "fetch"}

\* C24: the channel never buffers more than its capacity, while the spawn of
\* a worker waits for nothing: a start_import call that has inserted its
\* entry can always go on to spawn, whatever the channel holds and however
\* many workers run, and every call that has returned has its worker. (That
\* more workers than the channel has slots fetch at once is C24_Witness.)
C24_FetchesNotCapped ==
    /\ Len(channel) <= ChanCap
    /\ \A id \in DOMAIN sub :
           /\ sub[id].pc = "spawn" => ENABLED StartImportSpawn(id)
           /\ sub[id].pc = "returned" => id \in DOMAIN worker

\* one more worker than the channel has slots, all of them at their fetch
C24_Witness ==
    /\ Cardinality(Fetching) = ChanCap + 1
    /\ Cardinality(DOMAIN worker) = ChanCap + 1

\* the path a locator names: the path of a Disk locator, the file of a Hub one
LocatorPath(task) ==
    IF task.kind = "DISK" THEN task.locator.path ELSE task.locator.file

\* C25: the request the task calls register_model with is built from the job
\* of the message it holds: its model is the last component of the locator's
\* path (Disk) or file (Hub), its source is that locator with the job's
\* variant, and its model_path is the path in the info of the Completed
\* message, the one the job's worker sent.
C25_RequestFromJob ==
    loop.pc = "register" =>
        LET job == loop.msg.job
            task == sub[job].task
            req == loop.req.val
        IN  /\ loop.msg.status.type = "Completed"
            /\ Len(LocatorPath(task)) > 0
            /\ req.model = LocatorPath(task)[Len(LocatorPath(task))]
            /\ req.source.kind = task.kind
            /\ req.source.source = task.locator
            /\ loop.msg.status.info = Some(req.model_path)
            /\ sent[job][Len(sent[job])] = Completed(Some(req.model_path))

\* the request of a Disk job whose path has a directory and a file name
C25_Witness ==
    /\ loop.pc = "register"
    /\ sub[loop.msg.job].task.kind = "DISK"
    /\ Len(sub[loop.msg.job].task.locator.path) = 2
    /\ loop.req.val.model = "exists.bin"
    /\ loop.req.val.model_path = PExists

\* the tag serde writes for a variant
Tag(kind) == IF kind = "HF" THEN "locatorv1/hf" ELSE "locatorv1/disk"

\* the conversion started from a Locator value
FromValue == "loc" \in DOMAIN conv

\* every path in the locator is valid UTF-8
Utf8Locator(l) == to_str(LocatorPath(l)).some

\* C26 as stated: every Locator is serialised, and parsing the text yields
\* the same Locator.
C26_RoundTrip ==
    FromValue =>
        /\ conv.pc # "failed"
        /\ conv.pc = "parsed" => conv.back = Some(conv.loc)

\* C26: a Locator whose path is valid UTF-8 is serialised with the tag of
\* its variant, and parsing the text yields the same Locator; a Locator with
\* a path that is not UTF-8 is not serialised at all; and a text that
\* parses yields the variant its tag names.
C26_RoundTripUtf8 ==
    /\ (FromValue /\ Utf8Locator(conv.loc)) =>
           /\ conv.pc # "failed"
           /\ conv.pc = "text" => conv.json.val.type = Tag(conv.loc.kind)
           /\ conv.pc = "parsed" => conv.back = Some(conv.loc)
    /\ (FromValue /\ ~Utf8Locator(conv.loc)) => conv.pc \in {"value", "failed"}
    /\ (conv.pc = "parsed" /\ conv.back.some) =>
           conv.json.val.type = Tag(conv.back.val.kind)

\* a Hub locator with a file in a directory has come back as it was
C26_Witness ==
    /\ conv.pc = "parsed"
    /\ FromValue
    /\ conv.loc.kind = "HF"
    /\ Len(conv.loc.locator.file) = 2
    /\ conv.back = Some(conv.loc)

\* the version texts the model_version table holds for model id
VersionsOf(id) == {r.version : r \in {q \in db.model_version : q.model_id = id}}

\* C27: get_models succeeds and returns one RegisteredModel for every row of
\* the model table and none besides, each with the row's id and name and
\* with exactly the versions the model has, each once; for a database with
\* no model the list is empty.
C27_OnePerModel ==
    dbres.fn = "get_models" =>
        /\ dbres.result.type = "Ok"
        /\ LET out == dbres.result.val IN
              /\ Len(out) = Cardinality(db.model)
              /\ \A m \in db.model :
                     \E i \in 1 .. Len(out) :
                         /\ out[i].id = m.id
                         /\ out[i].name = m.name
                         /\ Len(out[i].versions) = Cardinality(VersionsOf(m.id))
                         /\ {out[i].versions[k].version :
                                k \in 1 .. Len(out[i].versions)} = VersionsOf(m.id)
              /\ db.model = {} => out = << >>

\* two models with different versions have been listed
C27_Witness ==
    /\ dbres.fn = "get_models"
    /\ Len(dbres.result.val) = 2
    /\ Len(dbres.result.val[1].versions) = 2
    /\ Len(dbres.result.val[2].versions) = 1

\* the status of the message of job j the task has last received, Queued if none
LastReceived(j) ==
    IF Received(j) = << >> THEN Queued ELSE Received(j)[Len(Received(j))]

\* C28 as stated: in every state the status of every entry is the status of
\* the message last received for its id, or Queued when none was received.
C28_StatusIsLastReceived ==
    \A j \in Jobs : StatusOf(j) = LastReceived(j)

\* C28: in every state the status of every entry is the status of the
\* message the task has last applied for its id, or Queued when it has
\* applied none; the messages applied for an id are the first ones its worker
\* sent, in that order; and the status is that of the last received message
\* whenever the task does not hold a message of that id it has yet to apply.
C28_StatusIsLastApplied ==
    \A j \in Jobs :
        /\ StatusOf(j) = LastApplied(j)
        /\ IsPrefix(applied[j], sent[j])
        /\ Len(sent[j]) > Len(applied[j]) =>
               \/ loop.pc \in {"lock", "apply"} /\ loop.msg.job = j
               \/ Buffered(j) # << >>
               \/ closed

\* the task has received a job's Completed and not yet applied it: the entry
\* still reads InProgress
C28_Witness ==
    \E j \in Jobs :
        /\ loop.pc = "lock"
        /\ loop.msg.job = j
        /\ loop.msg.status.type = "Completed"
        /\ StatusOf(j) = InProgress(0)

\* C29: every message buffered in the channel or held by the status-apply
\* task names a job that has its entry in the table, and so does every
\* message any worker has sent: the lookup of the entry finds it.
C29_MessagesNameStoredJobs ==
    /\ \A i \in 1 .. Len(channel) : channel[i].job \in Jobs
    /\ loop.pc \in {"lock", "apply", "register"} => loop.msg.job \in Jobs
    /\ \A j \in Ids : sent[j] # << >> => j \in Jobs

\* the task looks up the entry of the first job while the second call of
\* start_import waits for the lock to insert its own
C29_Witness ==
    /\ loop.pc = "apply"
    /\ Cardinality(Jobs) = 1
    /\ \E id \in DOMAIN sub : sub[id].pc = "lock"

\* C30: whatever the locator of the job, the step in which the status-apply
\* task applies an InProgress message assigns the status to the entry and
\* takes the task back to recv.
C30_InProgressAppliedForAnyLocator ==
    [][(loop.pc = "apply" /\ loop.msg.status.type = "InProgress"
            /\ loop' # loop) =>
           /\ loop'.pc = "recv"
           /\ ~closed'
           /\ job_status'[loop.msg.job].status = loop.msg.status
      ]_vars

\* C31: once the receiver is dropped it stays dropped, the ended task holds
\* neither message nor lock, and from then on no message is sent or applied
\* and no stored status changes, while start_import still inserts Queued
\* entries; a worker that makes its first send after that ends with an error,
\* having sent nothing and called no importer, and its job reads Queued.
C31_AfterLoopStops ==
    /\ [](closed => loop.pc = "dead" /\ channel = << >> /\ lock.writer # LoopWriter)
    /\ [][closed =>
             /\ closed'
             /\ sent' = sent
             /\ applied' = applied
             /\ \A j \in Jobs : job_status'[j] = job_status[j]
             /\ \A j \in DOMAIN job_status' \ Jobs : job_status'[j].status = Queued
             /\ \A j \in DOMAIN worker :
                    (worker[j].pc = "start" /\ worker'[j] # worker[j]) =>
                        worker'[j].pc = "err" /\ fetches'[j] = << >>
         ]_vars
    /\ [](\A j \in DOMAIN worker :
              (worker[j].pc = "err" /\ sent[j] = << >>) =>
                  fetches[j] = << >> /\ StatusOf(j) = Queued)

\* after the task has stopped a job has been submitted whose worker ended in
\* the error, and another job is left at InProgress with its Completed lost
C31_Witness ==
    /\ closed
    /\ \E j \in DOMAIN worker :
           /\ sub[j].pc = "returned"
           /\ worker[j].pc = "err"
           /\ sent[j] = << >>
           /\ StatusOf(j) = Queued
    /\ \E k \in Jobs : StatusOf(k).type = "InProgress" /\ Len(sent[k]) = 2

WriterWaiting ==
    \/ loop.pc = "lock"
    \/ \E id \in DOMAIN sub : sub[id].pc = "lock"

\* C33: a get_all_job_status call holds a read guard only while it iterates:
\* between its two acquisitions it holds none, so a writer waiting then is
\* not kept out by the call, and the call, once made, returns.
C33_ListNeverHoldsTwoGuards ==
    /\ []("list" \in lock.readers <=> ls.pc = "iter")
    /\ [](ls.pc \in {"first", "second"} => "list" \notin lock.readers)
    /\ (ls.pc = "first") ~> (ls.pc = "done")
    /\ (ls.pc = "second" /\ WriterWaiting) ~> (ls.pc = "done")

\* between the two acquisitions the status-apply task waits for the write
\* guard and nobody holds the lock
C33_Witness ==
    /\ ls.pc = "second"
    /\ loop.pc = "lock"
    /\ lock = LockFree

\* the tables of d that register_model writes
RegisterTables(d) ==
    [t \in {"model", "model_version", "import_metadata", "model_params"} |-> d[t]]

\* the rows of table t of d that belong to model id
RowsOf(d, t, id) == {r \in d[t] : IF t = "model" THEN r.id = id ELSE r.model_id = id}

\* C34: a call of register_model either returns the id of a model no row had,
\* having added exactly one row for that id to each of model, model_version,
\* import_metadata and model_params, or returns an error with the four tables,
\* and what get_models reads from them, as they were before the call
C34_RegisterAllOrNothing ==
    dbres.fn = "register_model" =>
        \/ /\ dbres.result.type = "Ok"
           /\ \A t \in DOMAIN RegisterTables(db) :
                  /\ RowsOf(dbres.before, t, dbres.result.id) = {}
                  /\ Cardinality(RowsOf(db, t, dbres.result.id)) = 1
                  /\ db[t] = dbres.before[t] \cup RowsOf(db, t, dbres.result.id)
        \/ /\ dbres.result.type = "Err"
           /\ RegisterTables(db) = RegisterTables(dbres.before)
           /\ get_models(db) = get_models(dbres.before)

\* register_model has failed at a later insert, after the insert of the model
\* row went through, on tables that held a model
C34_Witness ==
    /\ dbres.fn = "register_model"
    /\ dbres.result.type = "Err"
    /\ dbres.result.msg = "foreign key mismatch"
    /\ dbres.before.model # {}
    /\ insert(dbres.before, "model",
              ModelRow(NewModelId(dbres.before), dbres.args[1].model)).type = "Ok"

\* no two rows of the model table of d have the same name
NamesUnique(d) == \A r, s \in d.model : r.name = s.name => r = s

\* C35: no two rows of the model table ever have the same name, and a
\* register_model whose name a row has, or a rename_model of a stored model to
\* the name of another row, returns an error and leaves the tables unchanged
C35_NamesUnique ==
    /\ NamesUnique(db)
    /\ (/\ dbres.fn = "register_model"
        /\ \E r \in dbres.before.model : r.name = dbres.args[1].model)
           => dbres.result.type = "Err" /\ db = dbres.before
    /\ (/\ dbres.fn = "rename_model"
        /\ \E r, s \in dbres.before.model :
               r.name = dbres.args[1] /\ s.name = dbres.args[2] /\ r # s)
           => dbres.result.type = "Err" /\ db = dbres.before

\* a rename to the name of another model has been refused
C35_Witness ==
    /\ dbres.fn = "rename_model"
    /\ \E r, s \in dbres.before.model :
           r.name = dbres.args[1] /\ s.name = dbres.args[2] /\ r # s
    /\ dbres.result.type = "Err"
    /\ Cardinality(db.model) = 2

\* C36: delete_model of the name of a stored model returns Ok and leaves no
\* model row of that id and no row of saved_experiments, model_params,
\* import_metadata or model_version that refers to it, the other rows being
\* kept; delete_model of a name no model has returns an error and leaves the
\* tables unchanged
C36_DeleteModelRemoves ==
    dbres.fn = "delete_model" =>
        LET model_id == select_id(dbres.before, dbres.args[1])
        IN  IF model_id.some
            THEN /\ dbres.result.type = "Ok"
                 /\ \A t \in DOMAIN db :
                        db[t] = dbres.before[t] \ RowsOf(dbres.before, t, model_id.val)
            ELSE /\ dbres.result.type = "Err"
                 /\ db = dbres.before

\* upgrade_schema has been called
Upgraded == mig.call.fn = "upgrade_schema"

\* the last call of upgrade_schema returned the error e having run nothing
Refused(e) == mig.call.ran = << >> /\ mig.call.result = [type |-> "Err", error |-> e]

\* C37 as stated: upgrade_schema runs no migration and returns
\* InvalidSchemaVersion whenever from is at least the number of registered
\* migrations, and returns InvalidSchemaRange whenever to < from
C37_ErrorsAsStated ==
    Upgraded =>
        /\ mig.call.from >= Len(mig.call.on) => Refused("InvalidSchemaVersion")
        /\ mig.call.to < mig.call.from =>
               mig.call.result = [type |-> "Err", error |-> "InvalidSchemaRange"]

\* C37: upgrade_schema runs no migration and returns InvalidSchemaVersion
\* whenever from is at least the number of registered migrations, whatever to
\* is, and runs no migration and returns InvalidSchemaRange whenever to < from
\* and from is less than the number of registered migrations
C37_VersionCheckedFirst ==
    Upgraded =>
        /\ mig.call.from >= Len(mig.call.on) => Refused("InvalidSchemaVersion")
        /\ (mig.call.to < mig.call.from /\ mig.call.from < Len(mig.call.on))
               => Refused("InvalidSchemaRange")

\* a call with to < from, from being the number of registered migrations, has
\* been refused with InvalidSchemaVersion
C37_Witness ==
    /\ Upgraded
    /\ mig.call.to < mig.call.from
    /\ Len(mig.call.on) > 0
    /\ mig.call.from = Len(mig.call.on)
    /\ Refused("InvalidSchemaVersion")

\* the indices from, from + 1, ..., to - 1 in ascending order up to and
\* including that of the first migration that fails
RECURSIVE UpToFirstFailure(_, _, _)
UpToFirstFailure(fails, i, to) ==
    IF i >= to THEN << >>
    ELSE IF i \in fails THEN <<i>>
    ELSE <<i>> \o UpToFirstFailure(fails, i + 1, to)

\* the indices of the registered migrations whose forward fails
Failing == {i \in 0 .. (Len(mig.call.on) - 1) : mig.call.on[i + 1] = "fail"}

\* C38: a call of upgrade_schema that passes both checks (from less than the
\* number of migrations, from <= to) runs the migrations from, from + 1, ...,
\* to - 1 in ascending order, each once, up to and including the first that
\* fails; it returns that one's error, or Ok when none fails; and when to is
\* at most get_target_schema_version every index of the range has a migration
C38_RunsRangeInOrder ==
    (Upgraded /\ mig.call.from < Len(mig.call.on) /\ mig.call.from <= mig.call.to) =>
        LET ran == mig.call.ran
        IN  /\ ran = UpToFirstFailure(Failing, mig.call.from, mig.call.to)
            /\ IF ran # << >> /\ ran[Len(ran)] \in Failing
               THEN mig.call.result =
                        [type |-> "Err", error |-> <<"forward", ran[Len(ran)]>>]
               ELSE mig.call.result = [type |-> "Ok"]
            /\ mig.call.to <= get_target_schema_version([migrations |-> mig.call.on]) =>
                   \A k \in mig.call.from .. (mig.call.to - 1) :
                       k + 1 \in DOMAIN mig.call.on

====
